---- MODULE Spec2Model ----
(***************************************************************************)
(* A model of epoll-rs: the EPoll wrapper around the kernel's epoll        *)
(* facility (src/src/lib.rs), the event record and flags (src/src/ffi.rs)  *)
(* and the EventLoop built on it (src/src/event_loop.rs).                  *)
(*                                                                         *)
(* The kernel is modelled by the contract of epoll_ctl(2)/epoll_wait(2)    *)
(* for the two foreign functions declared in ffi.rs.                       *)
(***************************************************************************)
EXTENDS Integers, Sequences, FiniteSets, TLC

VARIABLES
    reg,      \* kernel: the interest list of the epoll instance, per descriptor
    ready,    \* kernel: the conditions that currently hold on each open descriptor
    rawfd,    \* caller: what each descriptor-bearing object's as_raw_fd() returns
    files,    \* EventLoop.files
    events,   \* EventLoop.events
    iter,     \* the EventLoopIterator of the last wait (live, index, amount)
    yielded,  \* what each call of EventLoopIterator::next returned, in order
    buf,      \* the event buffer the first thread keeps when EPoll is used directly
    res,      \* outcome of the API call made by the last step
    given,    \* the tag the caller last supplied to EPoll.add/modify, per descriptor
    givenMask,\* the interest mask the caller supplied with it, while registered
    adds,     \* number of EventLoop.add calls that returned Ok
    removes,  \* number of EventLoop.remove calls that returned Ok
    hwm,      \* the largest length EventLoop.files has had
    epoll,    \* the EPoll value: whether it exists, and its field fd
    fdtab,    \* kernel: what the descriptor values an epoll handle can take refer to
    closes,   \* the close() calls made by EPoll's drop, in order
    codec,    \* two descriptor values, their tags, and the values resolved from the tags
    moved,    \* whether an as_raw_fd() has answered differently from the time before
    waiting   \* per thread: the buffer and timeout of the EPoll.wait it is suspended in

vars == <<reg, ready, rawfd, files, events, iter, yielded, buf, res, given, givenMask,
          adds, removes, hwm, epoll, fdtab, closes, codec, moved, waiting>>

----------------------------------------------------------------------------
(* Bounds of the model *)

\* at most this many calls of EventLoop.add succeed
MaxAdds == 2
\* the caller asks an exhausted iterator for at most this many further items
MaxExtraNext == 1
\* the longest event buffer a caller of EPoll.wait supplies
MaxBuf == 2
\* the destructor of the EPoll runs at most this many times
MaxDrops == 2

----------------------------------------------------------------------------
(* Values *)

EPOLLIN == 1
EPOLLOUT == 4
EPOLLEXCLUSIVE == 268435456
EPOLLONESHOT == 1073741824
I32_MAX == 2147483647
\* 1 << 31, written as the signed value of its bit pattern
EPOLLET == -I32_MAX - 1

\* the interest masks used by callers of EPoll (sets of flags): level
\* triggered, one-shot, edge triggered and exclusive
Masks == {{EPOLLIN}, {EPOLLOUT}, {EPOLLIN, EPOLLONESHOT}, {EPOLLIN, EPOLLET},
          {EPOLLIN, EPOLLEXCLUSIVE}}
\* conditions that can hold on a descriptor
Conds == {EPOLLIN, EPOLLOUT}
\* the flags of a mask that are not conditions and that the kernel keeps when
\* it disables a one-shot registration
Private == {EPOLLONESHOT, EPOLLET, EPOLLEXCLUSIVE}
\* the flags that may come with EPOLLEXCLUSIVE
ExclusiveOk == {EPOLLIN, EPOLLOUT, EPOLLET, EPOLLEXCLUSIVE}

\* descriptors that are open in the process
OpenFds == {3, 4}
\* caller objects; "c" holds the same descriptor as "a", "d" holds no valid one
Objs == {"a", "b", "c", "d"}
\* the objects a direct caller of EPoll registers
EPollObjs == {"a", "b", "d"}
InitRawFd == [o \in Objs |-> CASE o = "a" -> 3 [] o = "b" -> 4 [] o = "c" -> 3 [] OTHER -> -1]

\* no registration for a descriptor
NoReg == [events |-> {}, data |-> <<0, 0, 0, 0>>, reported |-> FALSE]
\* the registration the kernel keeps for the event of an add or modify;
\* reported: it is edge triggered, has reported its readiness, and no
\* condition of its interest has come to hold since
Item(event) == [events |-> event.events, data |-> event.data, reported |-> FALSE]
None == "None"

\* A u64 is written as its four 16-bit limbs, the lowest first, each a number
\* in 0..65535.
\* the u64 of a number n in 0..2^31-1
U64(n) == <<n % 65536, n \div 65536, 0, 0>>
\* 2^32 + 3, a u64 that does not fit 32 bits
Above32Bits == <<3, 0, 1, 0>>
\* `fd as u64` for an i32: the 32 bits of fd in two's complement, and the sign
\* bit repeated in the upper 32 bits
AsU64(fd) ==
    LET sign == IF fd < 0 THEN 65535 ELSE 0
    IN  <<fd % 65536, (fd \div 65536) % 65536, sign, sign>>
\* the narrowing as it would be with a checked conversion that falls back to
\* -1 (i32::try_from(data).unwrap_or(-1))
AsRawFd_Checked(data) ==
    IF data[4] = 0 /\ data[3] = 0 /\ data[2] < 32768
    THEN data[2] * 65536 + data[1]
    ELSE -1
\* `data as RawFd` for a u64: the low 32 bits, read as a signed number
AsRawFd(data) ==
    (IF data[2] >= 32768 THEN data[2] - 65536 ELSE data[2]) * 65536 + data[1]

\* Event { events, data }
Event(evts, data) == [events |-> evts, data |-> data]
\* impl Default for Event
DefaultEvent == Event({EPOLLIN}, U64(0))

\* tags a direct caller of EPoll supplies
Tags == {U64(7), Above32Bits}

\* A usize is written in base 2^31: value = hi * 2^31 + lo
USize(hi, lo) == [hi |-> hi, lo |-> lo]
\* `amount as i32` for a usize: the low 32 bits, reinterpreted as signed
USizeAsI32(a) == IF a.hi % 2 = 1 THEN (a.lo - I32_MAX) - 1 ELSE a.lo
\* `amount >= std::i32::MAX as usize`
USizeGeI32Max(a) == a.hi > 0 \/ a.lo >= I32_MAX

Indefinite == [kind |-> "Indefinite", amount |-> USize(0, 0)]
Immediate == [kind |-> "Immediate", amount |-> USize(0, 0)]
Milliseconds(a) == [kind |-> "Milliseconds", amount |-> a]
Timeouts == {Indefinite, Immediate, Milliseconds(USize(0, 1000))}

\* what can happen while a wait sleeps: any set of conditions comes to hold,
\* each on an open descriptor
Arrivals == SUBSET (OpenFds \X Conds)

Min(a, b) == IF a < b THEN a ELSE b
Max(a, b) == IF a < b THEN b ELSE a

\* the descriptor values above the open descriptors at which the process
\* opens other files; the descriptor table starts with them and grows when
\* all of them are taken
HandleFds == {5, 6}
\* the threads that share the EPoll (EPoll is Sync, and wait takes &self)
Threads == {1, 2}
\* the thread that keeps its buffer from one wait to the next, as in
\* e.wait(&mut buf, t); the other makes a buffer for each wait, as in
\* e.wait(&mut [Event::default(); n], t)
Keeper == 1
\* a thread that is inside EPoll.wait(b, t), and one that is not
InWait(b, t) == [in |-> TRUE, b |-> b, t |-> t]
NotWaiting == [in |-> FALSE, b |-> <<>>, t |-> [kind |-> "-", amount |-> USize(0, 0)]]
\* the EPoll value before EPoll::new, and EPoll { fd }
NoEPoll == [state |-> "none", fd |-> 0]
EPoll(fd) == [state |-> "live", fd |-> fd]

\* one call of a foreign function, as the caller made it and as it returned
Sys(name, maxevents, timeout, rc, errno) ==
    [name |-> name, maxevents |-> maxevents, timeout |-> timeout, rc |-> rc, errno |-> errno]

----------------------------------------------------------------------------
(* The kernel: epoll_ctl and epoll_wait *)

KOk(r) == [rc |-> 0, errno |-> "none", reg |-> r]
KErr(e, r) == [rc |-> -1, errno |-> e, reg |-> r]

\* epoll_ctl(epfd, op, fd, event); nomem: the kernel cannot allocate.
\* EPOLLEXCLUSIVE is refused with EINVAL in a modify, with a flag that may
\* not come with it, and for a registration that has it.
epoll_ctl(r, op, fd, event, nomem) ==
    IF fd \notin OpenFds THEN KErr("EBADF", r)
    ELSE IF /\ op # "EPOLL_CTL_DEL"
            /\ EPOLLEXCLUSIVE \in event.events
            /\ (op = "EPOLL_CTL_MOD" \/ event.events \ ExclusiveOk # {})
    THEN KErr("EINVAL", r)
    ELSE IF op = "EPOLL_CTL_ADD" THEN
        IF r[fd] # NoReg THEN KErr("EEXIST", r)
        ELSE IF nomem THEN KErr("ENOMEM", r)
        ELSE KOk([r EXCEPT ![fd] = Item(event)])
    ELSE IF op = "EPOLL_CTL_DEL" THEN
        IF r[fd] = NoReg THEN KErr("ENOENT", r)
        ELSE IF nomem THEN KErr("ENOMEM", r)
        ELSE KOk([r EXCEPT ![fd] = NoReg])
    ELSE
        IF r[fd] = NoReg THEN KErr("ENOENT", r)
        ELSE IF EPOLLEXCLUSIVE \in r[fd].events THEN KErr("EINVAL", r)
        ELSE IF nomem THEN KErr("ENOMEM", r)
        ELSE KOk([r EXCEPT ![fd] = Item(event)])

\* the registered descriptors that have an event to report: a condition of
\* their interest holds, and an edge-triggered one has not reported it yet
ReadyList(r, rd) ==
    {fd \in OpenFds : r[fd] # NoReg /\ (rd[fd] \cap r[fd].events) # {} /\ ~r[fd].reported}

\* the event the kernel reports for a ready descriptor
KernelEvent(r, rd, fd) == Event(rd[fd] \cap r[fd].events, r[fd].data)

\* the orders in which the kernel may report n of the descriptors of S
Reports(S, n) == {s \in [1..n -> S] : \A i, j \in 1..n : s[i] = s[j] => i = j}

\* the conditions of arr come to hold
Arrive(rd, arr) == [fd \in OpenFds |-> rd[fd] \cup {c \in Conds : <<fd, c>> \in arr}]

\* the registrations after the conditions have gone from rd to now: a
\* condition of its interest that comes to hold gives an edge-triggered
\* registration a new event to report
Wake(r, rd, now) ==
    [fd \in OpenFds |-> IF ((now[fd] \ rd[fd]) \cap r[fd].events) # {}
                        THEN [r[fd] EXCEPT !.reported = FALSE]
                        ELSE r[fd]]

\* the registrations after the kernel has reported the descriptors of S: a
\* one-shot registration is disabled (it keeps only the flags that are not
\* conditions), an edge-triggered one has reported
AfterReport(r, S) ==
    [fd \in OpenFds |->
        IF fd \notin S THEN r[fd]
        ELSE IF EPOLLONESHOT \in r[fd].events
        THEN [r[fd] EXCEPT !.events = r[fd].events \cap Private]
        ELSE IF EPOLLET \in r[fd].events
        THEN [r[fd] EXCEPT !.reported = TRUE]
        ELSE r[fd]]

KReport(r, rd, maxevents, slept) ==
    { [rc |-> Len(s), errno |-> "none", slept |-> slept, ready |-> rd, order |-> s,
       evs |-> [i \in 1..Len(s) |-> KernelEvent(r, rd, s[i])],
       reg |-> AfterReport(r, {s[i] : i \in 1..Len(s)})] :
         s \in Reports(ReadyList(r, rd), Min(maxevents, Cardinality(ReadyList(r, rd)))) }

\* epoll_wait(epfd, events, maxevents, timeout): the outcomes the kernel can
\* produce.  arr: the conditions that come to hold while the caller
\* sleeps; intr: a signal arrives before they do.  No outcome: the call
\* does not return.
epoll_wait(r, rd, maxevents, timeout, arr, intr) ==
    IF maxevents <= 0
    THEN {[rc |-> -1, errno |-> "EINVAL", slept |-> FALSE, ready |-> rd,
          order |-> <<>>, evs |-> <<>>, reg |-> r]}
    ELSE IF ReadyList(r, rd) # {} THEN KReport(r, rd, maxevents, FALSE)
    ELSE IF timeout = 0
    THEN {[rc |-> 0, errno |-> "none", slept |-> FALSE, ready |-> rd,
          order |-> <<>>, evs |-> <<>>, reg |-> r]}
    ELSE IF intr
    THEN {[rc |-> -1, errno |-> "EINTR", slept |-> TRUE, ready |-> rd,
          order |-> <<>>, evs |-> <<>>, reg |-> r]}
    ELSE LET now == Arrive(rd, arr)
             woken == Wake(r, rd, now)
         IN  IF ReadyList(woken, now) # {}
             THEN KReport(woken, now, maxevents, TRUE)
             ELSE IF timeout > 0
             THEN {[rc |-> 0, errno |-> "none", slept |-> TRUE, ready |-> now,
                    order |-> <<>>, evs |-> <<>>, reg |-> woken]}
             ELSE {}

\* the lowest descriptor value of the table tab that is free, or the value
\* after its last one when none is
LowestFree(tab) ==
    LET free == {h \in DOMAIN tab : tab[h] = "free"}
    IN  IF free # {}
        THEN CHOOSE h \in free : \A g \in free : h <= g
        ELSE 1 + CHOOSE m \in DOMAIN tab : \A g \in DOMAIN tab : g <= m

\* epoll_create1(flags): a new instance at the lowest free descriptor value;
\* fail: the kernel refuses (EMFILE, ENFILE, ENOMEM)
epoll_create1(tab, fail) ==
    IF fail
    THEN [rc |-> -1, errno |-> "EMFILE", tab |-> tab]
    ELSE LET h == LowestFree(tab)
         IN  [rc |-> h, errno |-> "none",
              tab |-> [g \in DOMAIN tab \cup {h} |-> IF g = h THEN "epoll" ELSE tab[g]]]

\* whether descriptor value fd refers to an open file of the table
IsOpen(tab, fd) == fd \in DOMAIN tab /\ tab[fd] # "free"

\* close(fd); was: what the descriptor referred to
close(tab, fd) ==
    IF IsOpen(tab, fd)
    THEN [rc |-> 0, errno |-> "none", tab |-> [tab EXCEPT ![fd] = "free"], was |-> tab[fd]]
    ELSE [rc |-> -1, errno |-> "EBADF", tab |-> tab, was |-> "free"]

\* whether epfd refers to an epoll instance
IsEpoll(tab, epfd) == epfd \in DOMAIN tab /\ tab[epfd] = "epoll"
\* the errno of epoll_ctl(epfd, op, fd, event) for an epfd that is not an
\* epoll instance: the kernel resolves epfd and then fd, with EBADF for one
\* that is not open, before it refuses an open file that is not an epoll
\* instance with EINVAL
BadEpfd(tab, epfd, fd) ==
    IF IsOpen(tab, epfd) /\ fd \in OpenFds THEN "EINVAL" ELSE "EBADF"
\* the errno of epoll_wait(epfd, events, maxevents, timeout) for an epfd that
\* is not an epoll instance: the kernel resolves epfd, with EBADF for one that
\* is not open, before it looks at maxevents and at the kind of the file
BadEpfdWait(tab, epfd) == IF IsOpen(tab, epfd) THEN "EINVAL" ELSE "EBADF"

----------------------------------------------------------------------------
(* EPoll (lib.rs) *)

\* EPoll::new
EPoll_new(tab, fail) ==
    LET k == epoll_create1(tab, fail)
    IN  [ok |-> k.rc >= 0, err |-> k.errno, tab |-> k.tab,
         epoll |-> IF k.rc < 0 THEN NoEPoll ELSE EPoll(k.rc),
         sys |-> <<Sys("epoll_create1", 0, 0, k.rc, k.errno)>>]

\* Drop for EPoll as it would be without `self.fd = -1`
EPoll_drop_NoPoison(e, tab) ==
    LET k == close(tab, e.fd)
    IN  [epoll |-> [state |-> "dropped", fd |-> e.fd], tab |-> k.tab,
         close |-> [fd |-> e.fd, rc |-> k.rc, was |-> k.was]]

\* Drop for EPoll: the value after drop, and the close() it made
EPoll_drop(e, tab) ==
    LET k == close(tab, e.fd)
    IN  [epoll |-> [state |-> "dropped", fd |-> -1], tab |-> k.tab,
         close |-> [fd |-> e.fd, rc |-> k.rc, was |-> k.was]]

\* what add, remove and modify make of the outcome k of their epoll_ctl call:
\* rc < 0 stands for Err(last_os_error()), with the calls that were made
Ctl(k) ==
    [rc |-> k.rc, errno |-> k.errno, reg |-> k.reg,
     sys |-> <<Sys("epoll_ctl", 0, 0, k.rc, k.errno)>>]

\* EPoll::add as it would be if it dropped the caller's data
EPoll_add_NoData(r, fd, evts, data, nomem) ==
    Ctl(epoll_ctl(r, "EPOLL_CTL_ADD", fd, Event(evts, U64(0)), nomem))

\* EPoll::add
EPoll_add(r, fd, evts, data, nomem) ==
    Ctl(epoll_ctl(r, "EPOLL_CTL_ADD", fd, Event(evts, data), nomem))

\* EPoll::remove as it would be if it took "no such entry" for success
EPoll_remove_Idempotent(r, fd, nomem) ==
    LET k == epoll_ctl(r, "EPOLL_CTL_DEL", fd, DefaultEvent, nomem)
    IN  IF k.errno = "ENOENT"
        THEN [rc |-> 0, errno |-> "none", reg |-> r,
              sys |-> <<Sys("epoll_ctl", 0, 0, k.rc, k.errno)>>]
        ELSE Ctl(k)

\* EPoll::remove
EPoll_remove(r, fd, nomem) ==
    Ctl(epoll_ctl(r, "EPOLL_CTL_DEL", fd, DefaultEvent, nomem))

\* EPoll::modify as it would be with the operation code of add
EPoll_modify_Add(r, fd, evts, data, nomem) ==
    Ctl(epoll_ctl(r, "EPOLL_CTL_ADD", fd, Event(evts, data), nomem))

\* EPoll::modify
EPoll_modify(r, fd, evts, data, nomem) ==
    Ctl(epoll_ctl(r, "EPOLL_CTL_MOD", fd, Event(evts, data), nomem))

\* the timeout conversion as it would be with the first two arms swapped
TimeoutMs_Swapped(t) ==
    CASE t.kind = "Indefinite" -> 0
      [] t.kind = "Immediate" -> -1
      [] OTHER -> IF USizeGeI32Max(t.amount) THEN I32_MAX ELSE USizeAsI32(t.amount)

\* the timeout conversion as it would be with the cast alone, without the
\* comparison against i32::MAX
TimeoutMs_Cast(t) ==
    CASE t.kind = "Indefinite" -> -1
      [] t.kind = "Immediate" -> 0
      [] OTHER -> USizeAsI32(t.amount)

\* the timeout EPoll::wait passes to epoll_wait
TimeoutMs(t) ==
    CASE t.kind = "Indefinite" -> -1
      [] t.kind = "Immediate" -> 0
      [] OTHER -> IF USizeGeI32Max(t.amount) THEN I32_MAX ELSE USizeAsI32(t.amount)

\* the buffer as it would be if wait reset it to defaults before the call
Fill_Reset(b, evs) == [i \in 1..Len(b) |-> IF i <= Len(evs) THEN evs[i] ELSE DefaultEvent]

\* the buffer after the kernel has written evs into its first slots
Fill(b, evs) == [i \in 1..Len(b) |-> IF i <= Len(evs) THEN evs[i] ELSE b[i]]

\* EPoll::wait as it would be if it called epoll_wait again after a signal
EPoll_wait_Retry(r, rd, b, t, arr, intr) ==
    UNION { IF k.errno = "EINTR"
            THEN { [ok |-> j.rc >= 0, err |-> j.errno, n |-> IF j.rc >= 0 THEN j.rc ELSE 0,
                    events |-> Fill(b, j.evs), slept |-> TRUE, ready |-> j.ready,
                    order |-> j.order, reg |-> j.reg,
                    sys |-> <<Sys("epoll_wait", Len(b), TimeoutMs(t), k.rc, k.errno),
                              Sys("epoll_wait", Len(b), TimeoutMs(t), j.rc, j.errno)>>] :
                     j \in epoll_wait(k.reg, k.ready, Len(b), TimeoutMs(t), arr, FALSE) }
            ELSE { [ok |-> k.rc >= 0, err |-> k.errno, n |-> IF k.rc >= 0 THEN k.rc ELSE 0,
                    events |-> Fill(b, k.evs), slept |-> k.slept, ready |-> k.ready,
                    order |-> k.order, reg |-> k.reg,
                    sys |-> <<Sys("epoll_wait", Len(b), TimeoutMs(t), k.rc, k.errno)>>] } :
              k \in epoll_wait(r, rd, Len(b), TimeoutMs(t), arr, intr) }

\* EPoll::wait: the possible results, each with the buffer as the kernel left it
EPoll_wait(r, rd, b, t, arr, intr) ==
    { [ok |-> k.rc >= 0, err |-> k.errno, n |-> IF k.rc >= 0 THEN k.rc ELSE 0,
       events |-> Fill(b, k.evs), slept |-> k.slept, ready |-> k.ready, order |-> k.order,
       reg |-> k.reg,
       sys |-> <<Sys("epoll_wait", Len(b), TimeoutMs(t), k.rc, k.errno)>>] :
         k \in epoll_wait(r, rd, Len(b), TimeoutMs(t), arr, intr) }

----------------------------------------------------------------------------
(* EventLoop (event_loop.rs) *)

\* EventLoop::find_file_index as it would be with rposition: the last match
find_file_index_Last(ans, fd) ==
    IF \E i \in 1..Len(ans) : ans[i] = fd
    THEN CHOOSE i \in 1..Len(ans) : ans[i] = fd /\ \A j \in (i + 1)..Len(ans) : ans[j] # fd
    ELSE 0

\* EventLoop::find_file_index: the position (from 1) of the first tracked
\* reference whose as_raw_fd() is fd; 0 stands for Option::None.  ans[i] is
\* what the i-th tracked reference answers when position() asks it.
find_file_index(ans, fd) ==
    IF \E i \in 1..Len(ans) : ans[i] = fd
    THEN CHOOSE i \in 1..Len(ans) : ans[i] = fd /\ \A j \in 1..(i - 1) : ans[j] # fd
    ELSE 0

\* EventLoop::find_file_index_by_event; event_index counts from 0 as in the code
find_file_index_by_event(ans, evs, event_index) ==
    find_file_index(ans, AsRawFd(evs[event_index + 1].data))

\* Vec::remove(index)
VecRemove(s, index) == [i \in 1..(Len(s) - 1) |-> IF i < index THEN s[i] ELSE s[i + 1]]

\* EventLoop::add as it would be if it tracked the reference before looking at
\* the result of the registration
EventLoop_add_PushFirst(r, tagfd, fd, fs, evs, o, nomem) ==
    LET k == EPoll_add(r, fd, {EPOLLIN}, AsU64(tagfd), nomem)
        pushed == Append(fs, o)
    IN  [ok |-> k.rc >= 0, err |-> k.errno, reg |-> k.reg, sys |-> k.sys, files |-> pushed,
         events |-> IF Len(evs) < Len(pushed) THEN Append(evs, DefaultEvent) ELSE evs]

\* EventLoop::add as it would be if it never grew the event buffer
EventLoop_add_NoGrow(r, tagfd, fd, fs, evs, o, nomem) ==
    LET k == EPoll_add(r, fd, {EPOLLIN}, AsU64(tagfd), nomem)
    IN  IF k.rc < 0
        THEN [ok |-> FALSE, err |-> k.errno, reg |-> k.reg, sys |-> k.sys, files |-> fs,
              events |-> evs]
        ELSE [ok |-> TRUE, err |-> "none", reg |-> k.reg, sys |-> k.sys, files |-> Append(fs, o),
              events |-> evs]

\* EventLoop::add as it would be if it used the position in the tracked set
\* as the tag (as the module's example suggests) instead of the descriptor
EventLoop_add_IndexTag(r, tagfd, fd, fs, evs, o, nomem) ==
    LET k == EPoll_add(r, fd, {EPOLLIN}, U64(Len(fs)), nomem)
        pushed == Append(fs, o)
    IN  IF k.rc < 0
        THEN [ok |-> FALSE, err |-> k.errno, reg |-> k.reg, sys |-> k.sys, files |-> fs,
              events |-> evs]
        ELSE [ok |-> TRUE, err |-> "none", reg |-> k.reg, sys |-> k.sys, files |-> pushed,
              events |-> IF Len(evs) < Len(pushed) THEN Append(evs, DefaultEvent) ELSE evs]

\* EventLoop::add as it would be if it pushed an event at every successful add
EventLoop_add_AlwaysGrow(r, tagfd, fd, fs, evs, o, nomem) ==
    LET k == EPoll_add(r, fd, {EPOLLIN}, AsU64(tagfd), nomem)
    IN  IF k.rc < 0
        THEN [ok |-> FALSE, err |-> k.errno, reg |-> k.reg, sys |-> k.sys, files |-> fs,
              events |-> evs]
        ELSE [ok |-> TRUE, err |-> "none", reg |-> k.reg, sys |-> k.sys,
              files |-> Append(fs, o), events |-> Append(evs, DefaultEvent)]

\* EventLoop::add: the result and the loop's fields after the call.  The code
\* asks the reference for its descriptor twice: tagfd is the answer that
\* becomes the tag (the argument `file.as_raw_fd() as u64`, evaluated first),
\* fd the answer EPoll::add hands to the kernel.
EventLoop_add(r, tagfd, fd, fs, evs, o, nomem) ==
    LET k == EPoll_add(r, fd, {EPOLLIN}, AsU64(tagfd), nomem)
        pushed == Append(fs, o)
    IN  IF k.rc < 0
        THEN [ok |-> FALSE, err |-> k.errno, reg |-> k.reg, sys |-> k.sys, files |-> fs,
              events |-> evs]
        ELSE [ok |-> TRUE, err |-> "none", reg |-> k.reg, sys |-> k.sys, files |-> pushed,
              events |-> IF Len(evs) < Len(pushed) THEN Append(evs, DefaultEvent) ELSE evs]

\* EventLoop::remove as it would be if it never untracked the reference
EventLoop_remove_NoUntrack(r, fd, key, ans, fs, evs, o, nomem) ==
    LET k == EPoll_remove(r, fd, nomem)
    IN  [ok |-> k.rc >= 0, err |-> k.errno, reg |-> k.reg, sys |-> k.sys, files |-> fs,
              events |-> evs]

\* EventLoop::remove as it would be if it untracked the reference before
\* looking at the result of the deregistration
EventLoop_remove_UntrackFirst(r, fd, key, ans, fs, evs, o, nomem) ==
    LET k == EPoll_remove(r, fd, nomem)
        index == find_file_index(ans, key)
    IN  [ok |-> k.rc >= 0, err |-> k.errno, reg |-> k.reg, sys |-> k.sys,
         files |-> IF index # 0 THEN VecRemove(fs, index) ELSE fs, events |-> evs]

\* EventLoop::remove as it would be if it also gave back a slot of the buffer
EventLoop_remove_Shrink(r, fd, key, ans, fs, evs, o, nomem) ==
    LET k == EPoll_remove(r, fd, nomem)
        index == find_file_index(ans, key)
    IN  IF k.rc < 0
        THEN [ok |-> FALSE, err |-> k.errno, reg |-> k.reg, sys |-> k.sys, files |-> fs,
              events |-> evs]
        ELSE [ok |-> TRUE, err |-> "none", reg |-> k.reg, sys |-> k.sys,
              files |-> IF index # 0 THEN VecRemove(fs, index) ELSE fs,
              events |-> IF Len(evs) > 0 THEN SubSeq(evs, 1, Len(evs) - 1) ELSE evs]

\* EventLoop::remove as it would be if it looked for the reference itself
\* instead of for its descriptor value
EventLoop_remove_ByRef(r, fd, key, ans, fs, evs, o, nomem) ==
    LET k == EPoll_remove(r, fd, nomem)
        index == IF \E i \in 1..Len(fs) : fs[i] = o
                 THEN CHOOSE i \in 1..Len(fs) : fs[i] = o /\ \A j \in 1..(i - 1) : fs[j] # o
                 ELSE 0
    IN  IF k.rc < 0
        THEN [ok |-> FALSE, err |-> k.errno, reg |-> k.reg, sys |-> k.sys, files |-> fs,
              events |-> evs]
        ELSE [ok |-> TRUE, err |-> "none", reg |-> k.reg, sys |-> k.sys,
              files |-> IF index # 0 THEN VecRemove(fs, index) ELSE fs, events |-> evs]

\* EventLoop::remove: the result and the loop's fields after the call.  fd
\* is the answer EPoll::remove hands to the kernel, key the answer remove
\* then looks up, ans the answers of the tracked references to that lookup.
EventLoop_remove(r, fd, key, ans, fs, evs, o, nomem) ==
    LET k == EPoll_remove(r, fd, nomem)
        index == find_file_index(ans, key)
    IN  IF k.rc < 0
        THEN [ok |-> FALSE, err |-> k.errno, reg |-> k.reg, sys |-> k.sys, files |-> fs,
              events |-> evs]
        ELSE [ok |-> TRUE, err |-> "none", reg |-> k.reg, sys |-> k.sys,
              files |-> IF index # 0 THEN VecRemove(fs, index) ELSE fs, events |-> evs]

\* EventLoopIterator::next as it would be if it used the event's position as
\* the position in the tracked set
EventLoopIterator_next_ByPosition(ans, fs, evs, it) ==
    IF it.index >= it.amount
    THEN [item |-> None, index |-> it.index]
    ELSE [item |-> IF it.index + 1 > Len(fs) THEN None ELSE fs[it.index + 1],
          index |-> it.index + 1]

\* EventLoopIterator::next as it would be if it walked the events from the
\* last one reported to the first
EventLoopIterator_next_Backwards(ans, fs, evs, it) ==
    IF it.index >= it.amount
    THEN [item |-> None, index |-> it.index]
    ELSE LET i == find_file_index_by_event(ans, evs, (it.amount - 1) - it.index)
         IN  [item |-> IF i = 0 THEN None ELSE fs[i], index |-> it.index + 1]

\* EventLoopIterator::next as it would be without `self.index += 1`
EventLoopIterator_next_NoAdvance(ans, fs, evs, it) ==
    IF it.index >= it.amount
    THEN [item |-> None, index |-> it.index]
    ELSE LET i == find_file_index_by_event(ans, evs, it.index)
         IN  [item |-> IF i = 0 THEN None ELSE fs[i], index |-> it.index]

\* EventLoopIterator::next: the item returned (None or a tracked reference)
\* and the iterator's index after the call; ans are the answers of the
\* tracked references to the lookup
EventLoopIterator_next(ans, fs, evs, it) ==
    IF it.index >= it.amount
    THEN [item |-> None, index |-> it.index]
    ELSE LET i == find_file_index_by_event(ans, evs, it.index)
         IN  [item |-> IF i = 0 THEN None ELSE fs[i], index |-> it.index + 1]

----------------------------------------------------------------------------
(* The state machine *)

NoRes ==
    [op |-> "none", ok |-> TRUE, err |-> "none", arg |-> "-", n |-> 0, slept |-> FALSE,
     t |-> "-", amount |-> USize(0, 0), sys |-> <<>>, first |-> 0, second |-> 0, scan |-> <<>>,
     th |-> 0, events |-> <<>>]
\* the outcome of add, remove, modify or next
Res(op, ok, err, arg, n, slept) ==
    [op |-> op, ok |-> ok, err |-> err, arg |-> arg, n |-> n, slept |-> slept, t |-> "-",
     amount |-> USize(0, 0), sys |-> <<>>, first |-> 0, second |-> 0, scan |-> <<>>,
     th |-> 0, events |-> <<>>]
\* the same, with the foreign calls the operation made
ResSys(op, ok, err, arg, sys) == [Res(op, ok, err, arg, 0, FALSE) EXCEPT !.sys = sys]
\* the same, with what as_raw_fd() answered during the call: to the first and
\* to the second time the argument was asked, and to the lookup in the
\* tracked set
ResAsked(r, first, second, scan) ==
    [r EXCEPT !.first = first, !.second = second, !.scan = scan]
\* the outcome of a wait with timeout t: the count returned, and whether the
\* calling thread was suspended
ResWait(op, w, t) ==
    [op |-> op, ok |-> w.ok, err |-> w.err, arg |-> "-", n |-> w.n, slept |-> w.slept,
     t |-> t.kind, amount |-> t.amount, sys |-> w.sys, first |-> 0, second |-> 0,
     scan |-> <<>>, th |-> 0, events |-> <<>>]
\* the outcome of the EPoll.wait of thread th, with the buffer as the call
\* left it
ResWaitOf(th, w, t) == [ResWait("EPoll.wait", w, t) EXCEPT !.th = th, !.events = w.events]
NoIter == [live |-> FALSE, index |-> 0, amount |-> 0, kready |-> {}, korder |-> <<>>]

\* no descriptor value is being encoded
NoCodec ==
    [stage |-> "none", fd |-> <<0, 0>>, tag |-> <<U64(0), U64(0)>>, back |-> <<0, 0>>]

\* the state of everything but the EPoll value itself
InitRest ==
    /\ reg = [fd \in OpenFds |-> NoReg]
    /\ ready = [fd \in OpenFds |-> {}]
    /\ rawfd = InitRawFd
    /\ moved = FALSE
    /\ files = <<>>
    /\ events = <<>>
    /\ iter = NoIter
    /\ yielded = <<>>
    /\ buf = <<>>
    /\ waiting = [th \in Threads |-> NotWaiting]
    /\ res = NoRes
    /\ given = [fd \in OpenFds |-> U64(0)]
    /\ givenMask = [fd \in OpenFds |-> {}]
    /\ adds = 0
    /\ removes = 0
    /\ hwm = 0
    /\ closes = <<>>

\* after EventLoop::new (or EPoll::new) has returned Ok
Init ==
    /\ InitRest
    /\ LET a == EPoll_new([h \in HandleFds |-> "free"], FALSE)
       IN  epoll = a.epoll /\ fdtab = a.tab
    /\ codec = NoCodec

\* objects whose as_raw_fd() does not always return the same value: the
\* trait does not promise it, and the loop keeps only a shared reference
Rebindable == {"c"}

\* what object o can answer when the code asks as_raw_fd() again
Reads(rf, o) == IF o \in Rebindable THEN OpenFds ELSE {rf[o]}

\* what the tracked references answer if none of them changes
Stable(rf, fs) == [i \in 1..Len(fs) |-> rf[fs[i]]]

\* what object o answered last: to the latest of the positions in asked at
\* which it is tracked, or rf[o] if it is at none of them
LastAnswer(rf, fs, ans, asked, o) ==
    LET A == {i \in asked : fs[i] = o}
    IN  IF A = {} THEN rf[o] ELSE ans[CHOOSE i \in A : \A j \in A : j <= i]

\* the answers the tracked references can give to a lookup of fd, one
\* as_raw_fd() each in the order of the set.  position() stops at the first
\* match: a reference after it is not asked, its entry is what the object
\* answered last.
ScanAnswers(rf, fs, fd) ==
    {ans \in [1..Len(fs) -> OpenFds] :
        LET m == find_file_index(ans, fd)
            asked == IF m = 0 THEN 1..Len(fs) ELSE 1..m
        IN  \A i \in 1..Len(fs) :
               /\ ans[i] \in Reads(rf, fs[i])
               /\ i \notin asked => ans[i] = LastAnswer(rf, fs, ans, asked, fs[i])}

\* what each object answers after a lookup with the answers ans
AfterScan(rf, fs, ans) == [o \in Objs |-> LastAnswer(rf, fs, ans, 1..Len(fs), o)]

\* a call of EventLoop.add(&o); o answers rawfd[o] for the tag and fd to
\* EPoll::add
CallAdd(o, fd, nomem) ==
    /\ ~iter.live
    /\ ~waiting[Keeper].in
    /\ LET a == EventLoop_add(reg, rawfd[o], fd, files, events, o, nomem)
       IN  /\ a.ok => adds < MaxAdds
           /\ reg' = a.reg
           /\ files' = a.files
           /\ events' = a.events
           /\ res' = ResAsked(ResSys("EventLoop.add", a.ok, a.err, o, a.sys),
                              rawfd[o], fd, <<>>)
           /\ adds' = IF a.ok THEN adds + 1 ELSE adds
           /\ hwm' = Max(hwm, Len(a.files))
    /\ rawfd' = [rawfd EXCEPT ![o] = fd]
    /\ moved' = (moved \/ fd # rawfd[o])
    /\ UNCHANGED <<epoll, fdtab, closes, codec, waiting>>
    /\ UNCHANGED <<ready, iter, yielded, buf, given, removes, givenMask>>

\* a call of EventLoop.remove(&o); o answers rawfd[o] to EPoll::remove and
\* key to remove itself, the tracked references answer ans to the lookup of
\* key (a failed deregistration returns before these are asked for)
CallRemove(o, key, ans, nomem) ==
    /\ ~iter.live
    /\ ~waiting[Keeper].in
    /\ LET fd == rawfd[o]
           a == EventLoop_remove(reg, fd, key, ans, files, events, o, nomem)
           rf == [rawfd EXCEPT ![o] = key]
       IN  /\ ~a.ok => (key = fd /\ ans = Stable(rawfd, files))
           /\ reg' = a.reg
           /\ files' = a.files
           /\ events' = a.events
           /\ res' = ResAsked(ResSys("EventLoop.remove", a.ok, a.err, o, a.sys), fd, key, ans)
           /\ removes' = IF a.ok THEN removes + 1 ELSE removes
           /\ rawfd' = AfterScan(rf, files, ans)
           /\ moved' = (moved \/ key # fd \/ ans # Stable(rawfd, files))
    /\ UNCHANGED <<epoll, fdtab, closes, codec, waiting>>
    /\ UNCHANGED <<ready, iter, yielded, buf, given, adds, givenMask, hwm>>

\* the wait of a suspended thread found nothing to report when it was
\* called, so the conditions that give a registration an event to report now
\* have come to hold during its sleep: the conditions before them, and they
Before(r, rd) ==
    [fd \in OpenFds |-> IF fd \in ReadyList(r, rd) THEN rd[fd] \ r[fd].events ELSE rd[fd]]
Coming(r, rd) ==
    {p \in OpenFds \X Conds : p[1] \in ReadyList(r, rd) /\ p[2] \in rd[p[1]] \cap r[p[1]].events}

\* whether a wait with buffer b and timeout t that is called now suspends
\* its thread
Sleeps(r, rd, b, t) == \A w \in EPoll_wait(r, rd, b, t, {}, FALSE) : w.slept

\* the iterator EventLoop::wait returns for the result w of its EPoll::wait,
\* made when the registrations were r; an error leaves the iterator as it was
WaitIter(r, w) ==
    IF w.ok
    THEN [live |-> TRUE, index |-> 0, amount |-> w.n,
          kready |-> ReadyList(r, w.ready), korder |-> w.order]
    ELSE iter

\* a call of EventLoop.wait(t) by the thread that owns the loop: it returns
\* at once, on success with a live iterator, or the thread is suspended
\* inside epoll_wait with the loop's event buffer: the loop is borrowed
\* mutably until it returns
CallWait(t) ==
    /\ ~iter.live
    /\ ~waiting[Keeper].in
    /\ IF Sleeps(reg, ready, events, t)
       THEN /\ waiting' = [waiting EXCEPT ![Keeper] = InWait(events, t)]
            /\ res' = NoRes
            /\ UNCHANGED <<events, reg, iter>>
       ELSE /\ \E w \in EPoll_wait(reg, ready, events, t, {}, FALSE) :
                  /\ events' = w.events
                  /\ reg' = w.reg
                  /\ res' = ResWait("EventLoop.wait", w, t)
                  /\ iter' = WaitIter(reg, w)
            /\ UNCHANGED waiting
    /\ yielded' = <<>>
    /\ UNCHANGED <<epoll, fdtab, closes, codec>>
    /\ UNCHANGED <<ready, rawfd, moved, files, buf, given, adds, removes, givenMask, hwm>>

\* the EventLoop.wait the owner of the loop is suspended in returns; intr: a
\* signal arrives, which ends the sleep when there is still nothing to report
ReturnWait(intr) ==
    /\ waiting[Keeper].in
    /\ intr => ReadyList(reg, ready) = {}
    /\ \E w \in EPoll_wait(reg, Before(reg, ready), waiting[Keeper].b, waiting[Keeper].t,
                          Coming(reg, ready), intr) :
          /\ events' = w.events
          /\ reg' = w.reg
          /\ res' = ResWait("EventLoop.wait", w, waiting[Keeper].t)
          /\ iter' = WaitIter(reg, w)
    /\ waiting' = [waiting EXCEPT ![Keeper] = NotWaiting]
    /\ yielded' = <<>>
    /\ UNCHANGED <<epoll, fdtab, closes, codec>>
    /\ UNCHANGED <<ready, rawfd, moved, files, buf, given, adds, removes, givenMask, hwm>>

\* what the tracked references can answer to the lookup of the next event's
\* tag (an exhausted iterator looks nothing up)
NextAnswers ==
    IF iter.index >= iter.amount
    THEN {Stable(rawfd, files)}
    ELSE ScanAnswers(rawfd, files, AsRawFd(events[iter.index + 1].data))

\* the caller asks the live iterator for its next item; the tracked
\* references answer ans to the lookup
CallNext(ans) ==
    /\ iter.live
    /\ Len(yielded) < iter.amount + MaxExtraNext
    /\ LET nx == EventLoopIterator_next(ans, files, events, iter)
       IN  /\ yielded' = Append(yielded, nx.item)
           /\ iter' = [iter EXCEPT !.index = nx.index]
           /\ res' = ResAsked(Res("next", TRUE, "none", nx.item, 0, FALSE), 0, 0, ans)
    /\ rawfd' = AfterScan(rawfd, files, ans)
    /\ moved' = (moved \/ ans # Stable(rawfd, files))
    /\ UNCHANGED <<epoll, fdtab, closes, codec, waiting>>
    /\ UNCHANGED <<reg, ready, files, events, buf, given, adds, removes,
                   givenMask, hwm>>

\* the caller drops the iterator, which ends its borrow of the loop
DropIter ==
    /\ iter.live
    /\ iter' = NoIter
    /\ yielded' = <<>>
    /\ res' = NoRes
    /\ UNCHANGED <<epoll, fdtab, closes, codec, waiting>>
    /\ UNCHANGED <<reg, ready, rawfd, moved, files, events, buf, given, adds, removes,
                   givenMask, hwm>>

\* the environment: the conditions on an open descriptor change, which the
\* kernel notes for the registrations of the epoll instance
SetReady(fd, c) ==
    /\ c # ready[fd]
    /\ ready' = [ready EXCEPT ![fd] = c]
    /\ reg' = Wake(reg, ready, ready')
    /\ res' = NoRes
    /\ UNCHANGED <<epoll, fdtab, closes, codec, waiting>>
    /\ UNCHANGED <<rawfd, moved, files, events, iter, yielded, buf, given, adds, removes,
                   givenMask, hwm>>

\* the caller's object o starts to report descriptor fd, between two calls
\* of the API; the loop's shared reference does not prevent it, also not
\* while the sequence of a wait is being consumed
Rebind(o, fd) ==
    /\ fd # rawfd[o]
    /\ rawfd' = [rawfd EXCEPT ![o] = fd]
    /\ moved' = TRUE
    /\ res' = NoRes
    /\ UNCHANGED <<epoll, fdtab, closes, codec, waiting>>
    /\ UNCHANGED <<reg, ready, files, events, iter, yielded, buf, given, adds, removes,
                   givenMask, hwm>>

Next ==
    \/ \E o \in Objs, nomem \in BOOLEAN :
          \E fd \in Reads(rawfd, o) : CallAdd(o, fd, nomem)
    \/ \E o \in Objs, nomem \in BOOLEAN :
          \E key \in Reads(rawfd, o) :
             \E ans \in ScanAnswers([rawfd EXCEPT ![o] = key], files, key) :
                CallRemove(o, key, ans, nomem)
    \/ \E t \in Timeouts : CallWait(t)
    \/ \E intr \in BOOLEAN : ReturnWait(intr)
    \/ \E ans \in NextAnswers : CallNext(ans)
    \/ DropIter
    \/ \E fd \in OpenFds, c \in SUBSET Conds : SetReady(fd, c)
    \/ \E o \in Rebindable, fd \in OpenFds : Rebind(o, fd)

Spec == Init /\ [][Next]_vars

----------------------------------------------------------------------------
(* EPoll used directly by the threads that share it, each with a buffer of  *)
(* its own                                                                 *)

\* no thread is inside EPoll.wait, where it holds a shared borrow of the EPoll
NoneWaiting == \A th \in Threads : ~waiting[th].in

\* a call of EPoll.add(&o, m, tag); add, remove and modify take &mut self, so
\* none of them runs while a thread is inside wait
CallEPollAdd(o, m, tag, nomem) ==
    /\ NoneWaiting
    /\ LET k == EPoll_add(reg, rawfd[o], m, tag, nomem)
       IN  /\ reg' = k.reg
           /\ res' = ResSys("EPoll.add", k.rc >= 0, k.errno, o, k.sys)
           /\ given' = IF k.rc >= 0 THEN [given EXCEPT ![rawfd[o]] = tag] ELSE given
           /\ givenMask' = IF k.rc >= 0 THEN [givenMask EXCEPT ![rawfd[o]] = m]
                                        ELSE givenMask
    /\ UNCHANGED <<epoll, fdtab, closes, codec, waiting>>
    /\ UNCHANGED <<ready, rawfd, moved, files, events, iter, yielded, buf, adds, removes, hwm>>

\* a call of EPoll.remove(&o)
CallEPollRemove(o, nomem) ==
    /\ NoneWaiting
    /\ LET k == EPoll_remove(reg, rawfd[o], nomem)
       IN  /\ reg' = k.reg
           /\ res' = ResSys("EPoll.remove", k.rc >= 0, k.errno, o, k.sys)
           /\ given' = IF k.rc >= 0 THEN [given EXCEPT ![rawfd[o]] = U64(0)] ELSE given
           /\ givenMask' = IF k.rc >= 0 THEN [givenMask EXCEPT ![rawfd[o]] = {}]
                                        ELSE givenMask
    /\ UNCHANGED <<epoll, fdtab, closes, codec, waiting>>
    /\ UNCHANGED <<ready, rawfd, moved, files, events, iter, yielded, buf, adds, removes, hwm>>

\* a call of EPoll.modify(&o, m, tag)
CallEPollModify(o, m, tag, nomem) ==
    /\ NoneWaiting
    /\ LET k == EPoll_modify(reg, rawfd[o], m, tag, nomem)
       IN  /\ reg' = k.reg
           /\ res' = ResSys("EPoll.modify", k.rc >= 0, k.errno, o, k.sys)
           /\ given' = IF k.rc >= 0 THEN [given EXCEPT ![rawfd[o]] = tag] ELSE given
           /\ givenMask' = IF k.rc >= 0 THEN [givenMask EXCEPT ![rawfd[o]] = m]
                                        ELSE givenMask
    /\ UNCHANGED <<epoll, fdtab, closes, codec, waiting>>
    /\ UNCHANGED <<ready, rawfd, moved, files, events, iter, yielded, buf, adds, removes, hwm>>

\* the buffers thread th passes to a wait: the keeper the one it keeps, the
\* other a new one of one default event
Buffers(th) ==
    IF th = Keeper THEN {buf} ELSE {[i \in 1..1 |-> DefaultEvent]}
\* the keeper's buffer after a wait of thread th has left its buffer as b
Kept(th, b) == IF th = Keeper THEN b ELSE buf

\* thread th calls EPoll.wait(&mut b, t): the call returns at once, or
\* suspends the thread inside epoll_wait
CallEPollWait(th, b, t) ==
    /\ ~waiting[th].in
    /\ IF Sleeps(reg, ready, b, t)
       THEN /\ waiting' = [waiting EXCEPT ![th] = InWait(b, t)]
            /\ res' = NoRes
            /\ UNCHANGED <<buf, reg>>
       ELSE /\ \E w \in EPoll_wait(reg, ready, b, t, {}, FALSE) :
                  /\ buf' = Kept(th, w.events)
                  /\ reg' = w.reg
                  /\ res' = ResWaitOf(th, w, t)
            /\ UNCHANGED waiting
    /\ UNCHANGED <<epoll, fdtab, closes, codec>>
    /\ UNCHANGED <<ready, rawfd, moved, files, events, iter, yielded, given, adds,
                   removes, givenMask, hwm>>

\* the wait thread th is suspended in returns; intr: a signal arrives, which
\* ends the sleep when there is still nothing to report.  Reporting consumes
\* no condition: every thread that waits on the instance sees the same
\* conditions, and only a one-shot or edge-triggered registration is reported
\* to one of them.
ReturnEPollWait(th, intr) ==
    /\ waiting[th].in
    /\ intr => ReadyList(reg, ready) = {}
    /\ \E w \in EPoll_wait(reg, Before(reg, ready), waiting[th].b, waiting[th].t,
                          Coming(reg, ready), intr) :
          /\ buf' = Kept(th, w.events)
          /\ reg' = w.reg
          /\ res' = ResWaitOf(th, w, waiting[th].t)
    /\ waiting' = [waiting EXCEPT ![th] = NotWaiting]
    /\ UNCHANGED <<epoll, fdtab, closes, codec>>
    /\ UNCHANGED <<ready, rawfd, moved, files, events, iter, yielded, given, adds,
                   removes, givenMask, hwm>>

\* the environment: a condition of its interest that holds on fd is signalled
\* again (more data arrives on a readable descriptor), which gives an
\* edge-triggered registration a new event to report
Signal(fd) ==
    /\ reg[fd].reported
    /\ (ready[fd] \cap reg[fd].events) # {}
    /\ reg' = [reg EXCEPT ![fd].reported = FALSE]
    /\ res' = NoRes
    /\ UNCHANGED <<epoll, fdtab, closes, codec, waiting>>
    /\ UNCHANGED <<ready, rawfd, moved, files, events, iter, yielded, buf, given, adds,
                   removes, givenMask, hwm>>

\* the keeper makes a buffer of n default events, as in [Event::default(); n];
\* while it is inside a wait, the wait holds its buffer
NewBuffer(n) ==
    /\ ~waiting[Keeper].in
    /\ buf # [i \in 1..n |-> DefaultEvent]
    /\ buf' = [i \in 1..n |-> DefaultEvent]
    /\ res' = NoRes
    /\ UNCHANGED <<epoll, fdtab, closes, codec, waiting>>
    /\ UNCHANGED <<reg, ready, rawfd, moved, files, events, iter, yielded, given, adds, removes,
                   givenMask, hwm>>

\* the masks and tags the callers register object o with, and the conditions
\* that come and go on a descriptor: every kind of registration on one
\* descriptor, next to a level-triggered readable one on the other
MasksOf(o) == IF o = "b" THEN {{EPOLLIN}} ELSE Masks
TagsOf(o) == IF o = "b" THEN {U64(7)} ELSE Tags
CondsOf(fd) == IF fd = rawfd["b"] THEN {EPOLLIN} ELSE Conds

NextEPoll ==
    \/ \E o \in EPollObjs, nomem \in BOOLEAN : \E m \in MasksOf(o), tag \in TagsOf(o) :
          CallEPollAdd(o, m, tag, nomem)
    \/ \E o \in EPollObjs, nomem \in BOOLEAN : CallEPollRemove(o, nomem)
    \/ \E o \in EPollObjs, nomem \in BOOLEAN : \E m \in MasksOf(o), tag \in TagsOf(o) :
          CallEPollModify(o, m, tag, nomem)
    \/ \E th \in Threads, t \in Timeouts : \E b \in Buffers(th) : CallEPollWait(th, b, t)
    \/ \E th \in Threads, intr \in BOOLEAN : ReturnEPollWait(th, intr)
    \/ \E n \in 0..MaxBuf : NewBuffer(n)
    \/ \E fd \in OpenFds : \E c \in SUBSET CondsOf(fd) : SetReady(fd, c)
    \/ \E fd \in OpenFds : Signal(fd)

SpecEPoll == Init /\ [][NextEPoll]_vars

----------------------------------------------------------------------------
(* EPoll.wait with timeouts over the range of usize *)

\* amounts around 0, around i32::MAX = 2^31 - 1, around 2^32 and far above
WideAmounts == {USize(hi, lo) : hi \in {0, 1, 2, I32_MAX},
                                lo \in {0, 1000, I32_MAX - 1, I32_MAX}}
WideTimeouts == {Indefinite, Immediate} \cup {Milliseconds(a) : a \in WideAmounts}

NextTimeout ==
    \/ \E th \in Threads, t \in WideTimeouts : \E b \in Buffers(th) : CallEPollWait(th, b, t)
    \/ \E th \in Threads, intr \in BOOLEAN : ReturnEPollWait(th, intr)
    \/ \E n \in 0..MaxBuf : NewBuffer(n)
    \/ \E c \in SUBSET Conds : SetReady(3, c)
    \/ \E nomem \in BOOLEAN : CallEPollAdd("a", {EPOLLIN}, U64(7), nomem)

SpecTimeout == Init /\ [][NextTimeout]_vars

----------------------------------------------------------------------------
(* The life of an EPoll: EPoll::new, its methods, and its destructor *)

\* before EPoll::new
InitLife ==
    /\ InitRest
    /\ epoll = NoEPoll
    /\ fdtab = [h \in HandleFds |-> "free"]
    /\ codec = NoCodec

\* a call of EPoll::new()
CallNew(fail) ==
    /\ epoll.state = "none"
    /\ LET a == EPoll_new(fdtab, fail)
       IN  /\ epoll' = a.epoll
           /\ fdtab' = a.tab
           /\ res' = ResSys("EPoll.new", a.ok, a.err, "-", a.sys)
    /\ UNCHANGED <<reg, ready, rawfd, moved, files, events, iter, yielded, buf, given, givenMask,
                   adds, removes, hwm, closes, codec, waiting>>

\* the destructor runs on the EPoll value, which no thread borrows any more;
\* a second run stands for a second destruction of the same value.  Closing
\* the instance ends its registrations.
DropEPoll ==
    /\ epoll.state # "none"
    /\ NoneWaiting
    /\ Len(closes) < MaxDrops
    /\ LET d == EPoll_drop(epoll, fdtab)
       IN  /\ epoll' = d.epoll
           /\ fdtab' = d.tab
           /\ closes' = Append(closes, d.close)
           /\ reg' = IF d.close.was = "epoll" THEN [fd \in OpenFds |-> NoReg] ELSE reg
    /\ res' = NoRes
    /\ UNCHANGED <<ready, rawfd, moved, files, events, iter, yielded, buf, given, givenMask,
                   adds, removes, hwm, codec, waiting>>

\* the environment: the process opens another file, which gets a free
\* descriptor value
Reopen(h) ==
    /\ fdtab[h] = "free"
    /\ fdtab' = [fdtab EXCEPT ![h] = "other"]
    /\ res' = NoRes
    /\ UNCHANGED <<reg, ready, rawfd, moved, files, events, iter, yielded, buf, given, givenMask,
                   adds, removes, hwm, epoll, closes, codec, waiting>>

\* a method of the EPoll, which hands self.fd to the kernel: call when
\* self.fd names the instance, and otherwise the kernel's refusal, which is
\* the foreign call sys
OnHandle(name, sys, call) ==
    /\ epoll.state # "none"
    /\ IF IsEpoll(fdtab, epoll.fd)
       THEN call
       ELSE /\ NoneWaiting
            /\ res' = ResSys(name, FALSE, sys.errno, "-", <<sys>>)
            /\ UNCHANGED <<reg, ready, rawfd, moved, files, events, iter, yielded, buf, given,
                           givenMask, adds, removes, hwm, epoll, fdtab, closes, codec, waiting>>

\* epoll_ctl on an epfd that is not an epoll instance, for the descriptor of o
CtlRefused(o) == Sys("epoll_ctl", 0, 0, -1, BadEpfd(fdtab, epoll.fd, rawfd[o]))
\* epoll_wait on an epfd that is not an epoll instance, with buffer b
WaitRefused(b, t) ==
    Sys("epoll_wait", Len(b), TimeoutMs(t), -1, BadEpfdWait(fdtab, epoll.fd))

LifeAdd(o, nomem) ==
    OnHandle("EPoll.add", CtlRefused(o), CallEPollAdd(o, {EPOLLIN}, U64(7), nomem))
LifeRemove(o, nomem) ==
    OnHandle("EPoll.remove", CtlRefused(o), CallEPollRemove(o, nomem))
LifeModify(o, nomem) ==
    OnHandle("EPoll.modify", CtlRefused(o), CallEPollModify(o, {EPOLLOUT}, Above32Bits, nomem))
LifeWait(th, b, t) ==
    OnHandle("EPoll.wait", WaitRefused(b, t), CallEPollWait(th, b, t))

NextLife ==
    \/ \E fail \in BOOLEAN : CallNew(fail)
    \/ DropEPoll
    \/ \E h \in HandleFds : Reopen(h)
    \/ \E o \in {"a", "d"}, nomem \in BOOLEAN : LifeAdd(o, nomem)
    \/ \E o \in {"a", "d"}, nomem \in BOOLEAN : LifeRemove(o, nomem)
    \/ \E o \in {"a", "d"}, nomem \in BOOLEAN : LifeModify(o, nomem)
    \/ \E th \in Threads, t \in Timeouts : \E b \in Buffers(th) : LifeWait(th, b, t)
    \/ \E th \in Threads, intr \in BOOLEAN : ReturnEPollWait(th, intr)
    \/ \E n \in 0..MaxBuf : NewBuffer(n)
    \/ \E c \in SUBSET Conds : SetReady(3, c)

SpecLife == InitLife /\ [][NextLife]_vars

----------------------------------------------------------------------------
(* The tag of the EventLoop: a descriptor value to its tag and back *)

\* descriptor values over the range of i32: around 0, around the 16-bit
\* boundaries, and at both ends
FdValues ==
    (-4..8) \cup {-I32_MAX - 1, -I32_MAX, -65537, -65536, -65535, -32769, -32768, -32767,
                  32767, 32768, 65535, 65536, 65537, I32_MAX - 1, I32_MAX}

\* two objects report their descriptor values
InitTag ==
    /\ InitRest
    /\ LET a == EPoll_new([h \in HandleFds |-> "free"], FALSE)
       IN  epoll = a.epoll /\ fdtab = a.tab
    /\ \E a, b \in FdValues :
          codec = [stage |-> "fd", fd |-> <<a, b>>, tag |-> <<U64(0), U64(0)>>,
                   back |-> <<0, 0>>]

\* EventLoop::add computes the tag of each: file.as_raw_fd() as u64
Widen ==
    /\ codec.stage = "fd"
    /\ codec' = [codec EXCEPT !.stage = "tag",
                              !.tag = <<AsU64(codec.fd[1]), AsU64(codec.fd[2])>>]
    /\ UNCHANGED <<reg, ready, rawfd, moved, files, events, iter, yielded, buf, res, given,
                   givenMask, adds, removes, hwm, epoll, fdtab, closes, waiting>>

\* find_file_index_by_event takes each tag back: data as RawFd
Narrow ==
    /\ codec.stage = "tag"
    /\ codec' = [codec EXCEPT !.stage = "back",
                              !.back = <<AsRawFd(codec.tag[1]), AsRawFd(codec.tag[2])>>]
    /\ UNCHANGED <<reg, ready, rawfd, moved, files, events, iter, yielded, buf, res, given,
                   givenMask, adds, removes, hwm, epoll, fdtab, closes, waiting>>

NextTag == Widen \/ Narrow

SpecTag == InitTag /\ [][NextTag]_vars

----------------------------------------------------------------------------
(* Properties of the EventLoop, under Spec *)

Range(s) == {s[i] : i \in 1..Len(s)}
\* the tracked references whose descriptor is fd
Tracked(fd) == {i \in 1..Len(files) : rawfd[files[i]] = fd}
\* fs without the first of its references that answered fd
WithoutFirst(fs, ans, fd) ==
    LET M == {i \in 1..Len(fs) : ans[i] = fd}
        m == CHOOSE i \in M : \A j \in M : i <= j
    IN  IF M = {} THEN fs ELSE SubSeq(fs, 1, m - 1) \o SubSeq(fs, m + 1, Len(fs))

\* C1 as stated: the number of tracked references equals the number of
\* successful adds minus the number of successful removes.
C1_TrackedIsAddsMinusRemoves == Len(files) = adds - removes

\* C1, amended: as long as no as_raw_fd() has answered differently from the
\* time before, the number of tracked references equals the number of
\* successful adds minus the number of successful removes.
C1_StableTrackedIsAddsMinusRemoves == ~moved => Len(files) = adds - removes

C1_Witness ==
    /\ ~moved
    /\ adds = 2 /\ removes = 1 /\ Len(files) = 1 /\ res.op = "EventLoop.add"

\* C2: the event buffer is at least as long as the tracked set, after any
\* sequence of add/remove/wait calls.
C2_BufferCoversTracked == Len(events) >= Len(files)

C2_Witness ==
    /\ Len(files) = 2 /\ Len(events) = 2
    /\ res.op = "EventLoop.wait" /\ res.ok /\ res.n = 2

\* C3 as stated: the tracked set is at least as large as the event buffer.
C3_TrackedCoversBuffer == Len(files) >= Len(events)

\* C3, amended: the tracked set is never larger than the event buffer, and
\* no operation shrinks the buffer.
C3_BufferNeverShrinks ==
    /\ Len(files) <= Len(events)
    /\ [][Len(files') <= Len(events') /\ Len(events') >= Len(events)]_vars

C3_Witness ==
    /\ res.op = "EventLoop.remove" /\ res.ok
    /\ Len(files) = 0 /\ Len(events) = 2

\* C5: an EventLoop.add whose registration fails returns the OS error and
\* leaves the tracked set and the event buffer as they were.
C5_FailedAddChangesNothing ==
    [][(res'.op = "EventLoop.add" /\ ~res'.ok)
         => (res'.err # "none" /\ files' = files /\ events' = events)]_vars

C5_Witness ==
    /\ res.op = "EventLoop.add" /\ ~res.ok /\ res.err = "EEXIST"
    /\ Len(files) = 1 /\ Len(events) = 2

\* C6: an EventLoop.remove of a tracked descriptor whose deregistration fails
\* returns the OS error and removes no reference; one whose deregistration
\* succeeds removes exactly the first tracked reference with that descriptor
\* (the descriptor is the one remove looks up, a reference has it if it
\* answers it to the lookup).
C6_RemoveFollowsKernel ==
    [][(res'.op = "EventLoop.remove"
          /\ \E i \in 1..Len(files) : res'.scan[i] = res'.second)
         => IF res'.ok
            THEN /\ files' = WithoutFirst(files, res'.scan, res'.second)
                 /\ Len(files') = Len(files) - 1
            ELSE res'.err # "none" /\ files' = files]_vars

C6_Witness ==
    /\ res.op = "EventLoop.remove" /\ ~res.ok /\ res.err = "ENOMEM"
    /\ Tracked(rawfd[res.arg]) # {} /\ removes >= 1

\* C7 as stated: every tracked reference has a registration on the inner
\* EPoll whose interest mask is exactly EPOLLIN and whose tag is the
\* reference's raw descriptor value.
C7_TrackedAreRegistered ==
    \A i \in 1..Len(files) :
        LET fd == rawfd[files[i]]
        IN  /\ fd \in OpenFds
            /\ reg[fd] # NoReg
            /\ reg[fd].events = {EPOLLIN}
            /\ reg[fd].data = U64(fd)

\* C7, amended: as long as no as_raw_fd() has answered differently from the
\* time before, every tracked reference has a registration on the inner
\* EPoll whose interest mask is exactly EPOLLIN and whose tag is the
\* reference's raw descriptor value.
C7_StableTrackedAreRegistered == ~moved => C7_TrackedAreRegistered

C7_Witness ==
    /\ ~moved
    /\ Len(files) = 1 /\ adds = 2 /\ removes = 1
    /\ res.op = "EventLoop.wait" /\ res.ok /\ res.n = 1

\* C8 as stated: a request that resolves an event yields a tracked reference
\* that answers the event's tag to the lookup if there is one and nothing
\* otherwise, and the descriptor of a reference it yields was ready when the
\* kernel reported.
C8_YieldsReadyTracked ==
    [][(res'.op = "next" /\ iter.index < iter.amount) =>
          LET tag == AsRawFd(events[iter.index + 1].data)
              M == {i \in 1..Len(files) : res'.scan[i] = tag}
          IN  IF M = {}
              THEN res'.arg = None
              ELSE /\ \E i \in M : files[i] = res'.arg
                   /\ tag \in iter.kready]_vars

\* C8, amended: as long as no as_raw_fd() has answered differently from the
\* time before, every item the iterator yields is a tracked reference whose
\* descriptor is the tag of the event it was resolved from and was ready when
\* the kernel reported; each reported event yields exactly one item, so
\* nothing is yielded when no tracked descriptor is ready, and once the
\* events are used up the items are exactly the ready tracked descriptors.
C8_YieldsTheReadyFiles ==
    (~moved /\ iter.live) =>
        /\ \A k \in 1..Len(yielded) :
              IF k <= iter.amount
              THEN /\ yielded[k] # None
                   /\ yielded[k] \in Range(files)
                   /\ events[k].data = U64(rawfd[yielded[k]])
                   /\ rawfd[yielded[k]] \in iter.kready
              ELSE yielded[k] = None
        /\ iter.amount = Cardinality(iter.kready)
        /\ iter.index = Min(Len(yielded), iter.amount)
        /\ iter.index = iter.amount =>
              /\ {rawfd[yielded[k]] : k \in 1..iter.amount} = iter.kready
              /\ \A j, k \in 1..iter.amount : yielded[j] = yielded[k] => j = k

C8_Witness ==
    /\ ~moved
    /\ iter.live /\ Len(files) = 2 /\ iter.amount = 1
    /\ Len(yielded) = 2 /\ yielded[1] = "b" /\ yielded[2] = None

----------------------------------------------------------------------------
(* The sequence of a wait whose events do not all resolve, under Spec *)

\* C4: an event whose tag matches no tracked reference is only omitted and
\* does not end the sequence: when the caller that consumes the sequence
\* until its first None receives that None for an event of the batch, no
\* later event of the batch has the tag of a tracked reference.
C4_UnmatchedEventOnlyOmitted ==
    (/\ iter.live /\ res.op = "next" /\ res.arg = None
     /\ Len(yielded) <= iter.amount
     /\ \A j \in 1..(Len(yielded) - 1) : yielded[j] # None)
      => \A e \in (Len(yielded) + 1)..iter.amount :
             Tracked(AsRawFd(events[e].data)) = {}

----------------------------------------------------------------------------
(* Properties of EPoll.wait, under SpecEPoll *)

\* fd is the one registered descriptor on which a condition of the interest
\* it was registered with holds; that interest includes readable, and fd is
\* readable
OnlyReadableAsGiven(fd) ==
    /\ {g \in OpenFds : reg[g] # NoReg /\ (ready[g] \cap givenMask[g]) # {}} = {fd}
    /\ EPOLLIN \in givenMask[fd]
    /\ EPOLLIN \in ready[fd]

\* fd is the one descriptor the kernel has an event to report for, and the
\* event is that fd is readable: a one-shot registration has not reported
\* since the add or modify that armed it, an edge-triggered one has not
\* reported since its condition was last signalled
OnlyReadable(fd) ==
    /\ ReadyList(reg, ready) = {fd}
    /\ EPOLLIN \in reg[fd].events
    /\ EPOLLIN \in ready[fd]

\* the wait with result r returned one event for fd: the tag supplied when fd
\* was registered, and the readable bit
OneEventFor(r, fd) ==
    /\ r.ok
    /\ r.n = 1
    /\ r.events[1].data = given[fd]
    /\ EPOLLIN \in r.events[1].events

\* C9 as stated: if exactly one registered descriptor with readable interest
\* is ready before the timeout elapses, wait returns exactly one event, with
\* the tag supplied at registration and the readable bit.
C9_OneReadyOneEvent ==
    [][\A fd \in OpenFds :
          (res'.op = "EPoll.wait" /\ OnlyReadableAsGiven(fd)) => OneEventFor(res', fd)]_vars

\* C9, amended: a wait that is given a buffer of at least one slot, and that
\* returns when exactly one registered descriptor has an event to report, with
\* readable interest and readable, returns exactly one event, with the tag
\* supplied at registration and the readable bit.  A one-shot registration
\* has an event to report once after the add or modify that armed it, an
\* edge-triggered one once after each time its condition is signalled, any
\* other as long as its condition holds.
C9_OneReadyOneEventInBuffer ==
    [][\A fd \in OpenFds :
          (res'.op = "EPoll.wait" /\ OnlyReadable(fd) /\ Len(res'.events) >= 1)
              => OneEventFor(res', fd)]_vars

\* the second thread's wait slept and returned the event of the one-shot
\* registration of descriptor 3, which the kernel disabled: descriptor 3 is
\* still readable and the first thread is still inside its own wait
C9_Witness ==
    /\ res.op = "EPoll.wait" /\ res.slept /\ res.t = "Milliseconds"
    /\ res.th # Keeper /\ waiting[Keeper].in
    /\ res.ok /\ res.n = 1 /\ res.events = <<Event({EPOLLIN}, Above32Bits)>>
    /\ givenMask[3] = {EPOLLIN, EPOLLONESHOT} /\ given[3] = Above32Bits
    /\ reg[3].events = {EPOLLONESHOT} /\ EPOLLIN \in ready[3]
    /\ reg[4] # NoReg /\ ReadyList(reg, ready) = {}

\* C10 as stated: a wait with Timeout::Immediate never blocks, and returns Ok(0)
\* whenever no registered descriptor is ready.
C10_ImmediateReturnsZero ==
    [][(res'.op = "EPoll.wait" /\ res'.t = "Immediate") =>
          /\ ~res'.slept
          /\ ReadyList(reg, ready) = {} => (res'.ok /\ res'.n = 0)]_vars

\* C10, amended: a wait with Timeout::Immediate never blocks; when no
\* registered descriptor is ready it returns Ok(0) if the buffer has at least
\* one slot, and the kernel's error if the buffer is empty.  This holds of
\* every such wait that is made, and of every one that can be made.
C10_ImmediateReturnsZeroInBuffer ==
    /\ [][(res'.op = "EPoll.wait" /\ res'.t = "Immediate") =>
            /\ ~res'.slept
            /\ ReadyList(reg, ready) = {} =>
                  IF Len(res'.events) >= 1 THEN res'.ok /\ res'.n = 0
                                           ELSE ~res'.ok /\ res'.err = "EINVAL"]_vars
    /\ [](\A th \in Threads : \A b \in Buffers(th) :
             \A w \in EPoll_wait(reg, ready, b, Immediate, {}, FALSE) :
                /\ ~w.slept
                /\ ReadyList(reg, ready) = {} =>
                      IF Len(b) >= 1 THEN w.ok /\ w.n = 0
                                     ELSE ~w.ok /\ w.err = "EINVAL")

\* nothing to report for the readable descriptor 3, whose one-shot
\* registration has reported: the wait returned Ok(0)
C10_Witness ==
    /\ res.op = "EPoll.wait" /\ res.t = "Immediate" /\ res.ok /\ res.n = 0
    /\ Len(res.events) = 1 /\ reg[3].events = {EPOLLONESHOT} /\ EPOLLIN \in ready[3]
    /\ ReadyList(reg, ready) = {}

----------------------------------------------------------------------------
(* Properties of EPoll.remove and EPoll.modify, under SpecEPoll *)

\* the descriptors registered on the epoll instance
Registered(r) == {fd \in OpenFds : r[fd] # NoReg}

\* C11: EPoll.remove of a descriptor that is not registered fails with an OS
\* error and changes no registration; so a remove that follows a successful
\* remove of the same descriptor fails.
C11_RemoveUnregisteredFails ==
    [][/\ (res'.op = "EPoll.remove" /\ rawfd[res'.arg] \notin Registered(reg))
            => (~res'.ok /\ res'.err # "none" /\ reg' = reg)
       /\ (res.op = "EPoll.remove" /\ res.ok /\ res'.op = "EPoll.remove"
             /\ res'.arg = res.arg /\ res' # res)
            => (~res'.ok /\ res'.err = "ENOENT" /\ reg' = reg)]_vars

C11_Witness ==
    /\ res.op = "EPoll.remove" /\ ~res.ok /\ res.err = "ENOENT" /\ res.arg = "a"
    /\ Registered(reg) = {4}

----------------------------------------------------------------------------
(* The timeout of EPoll.wait, under SpecTimeout *)

\* min(N, 2^31 - 1) for a usize N
MinWithI32Max(a) == IF a.hi > 0 THEN I32_MAX ELSE Min(a.lo, I32_MAX)
\* N > 2^31 - 1
AboveI32Max(a) == a.hi > 0

\* C12: a wait with Milliseconds(N) hands min(N, 2^31 - 1) to epoll_wait as
\* its timeout, which is never negative (so never the -1 of an indefinite
\* wait), and with any N above 2^31 - 1 the wait has the outcomes it has
\* with N = 2^31 - 1.
C12_TimeoutIsClamped ==
    /\ (res.op = "EPoll.wait" /\ res.t = "Milliseconds")
         => /\ Len(res.sys) = 1
            /\ res.sys[1].timeout = MinWithI32Max(res.amount)
            /\ res.sys[1].timeout >= 0
    /\ \A a \in WideAmounts, arr \in Arrivals, intr \in BOOLEAN :
          AboveI32Max(a) =>
             EPoll_wait(reg, ready, buf, Milliseconds(a), arr, intr)
               = EPoll_wait(reg, ready, buf, Milliseconds(USize(0, I32_MAX)), arr, intr)

\* a wait of 2^32 - 1 ms (whose low 32 bits are those of -1) slept and timed out
C12_Witness ==
    /\ res.op = "EPoll.wait" /\ res.t = "Milliseconds" /\ res.ok /\ res.slept /\ res.n = 0
    /\ res.amount = USize(1, I32_MAX)
    /\ res.sys[1].timeout = I32_MAX

----------------------------------------------------------------------------
(* The life of an EPoll, under SpecLife *)

EPollMethods == {"EPoll.add", "EPoll.remove", "EPoll.modify", "EPoll.wait"}

\* C13: the destructor closes the EPoll's handle and then stores -1 in fd:
\* the first run closes the epoll instance, every later run closes nothing
\* (it calls close(-1)), and a method called on the value after drop is
\* refused by the kernel with EBADF.
C13_DropReleasesOnce ==
    /\ epoll.state # "dropped" => closes = <<>>
    /\ epoll.state = "dropped" =>
         /\ epoll.fd = -1
         /\ Len(closes) >= 1
         /\ closes[1].fd \in DOMAIN fdtab /\ closes[1].rc = 0 /\ closes[1].was = "epoll"
         /\ \A i \in 2..Len(closes) : closes[i].fd = -1 /\ closes[i].rc = -1
         /\ res.op \in EPollMethods => (~res.ok /\ res.err = "EBADF")

\* the handle value was given to another file before the destructor ran again
C13_Witness ==
    /\ epoll.state = "dropped"
    /\ Len(closes) = 2
    /\ closes[2].rc = -1
    /\ \E h \in HandleFds : closes[1].fd = h /\ fdtab[h] = "other"

KernelCallOf(op) ==
    CASE op = "EPoll.new" -> "epoll_create1"
      [] op = "EPoll.wait" -> "epoll_wait"
      [] OTHER -> "epoll_ctl"

\* C17: new, add, remove, modify and wait each make exactly one kernel call,
\* and return Err with that call's errno exactly when it fails; a wait that
\* a signal interrupts returns Err(EINTR).
C17_OneKernelCall ==
    res.op \in EPollMethods \cup {"EPoll.new"} =>
        /\ Len(res.sys) = 1
        /\ res.sys[1].name = KernelCallOf(res.op)
        /\ res.ok <=> res.sys[1].rc >= 0
        /\ ~res.ok => (res.err = res.sys[1].errno /\ res.err # "none")

C17_Witness ==
    /\ res.op = "EPoll.wait" /\ ~res.ok /\ res.err = "EINTR" /\ res.slept
    /\ Len(res.sys) = 1 /\ res.sys[1].rc = -1
    /\ Registered(reg) # {}

----------------------------------------------------------------------------
(* The order and the end of the sequence of a wait, under Spec *)

\* C14: the references one wait yields come in the order in which the kernel
\* reported their events: the reference yielded to the k-th request is one
\* that answers the tag of the descriptor the kernel reported k-th, so of two
\* references yielded the one yielded first is that of the event reported
\* first.
C14_YieldedInKernelOrder ==
    [][(res'.op = "next" /\ res'.arg # None) =>
          LET k == Len(yielded')
          IN  /\ k <= Len(iter.korder)
              /\ \E i \in 1..Len(files) :
                    /\ files[i] = res'.arg
                    /\ res'.scan[i] = AsRawFd(reg[iter.korder[k]].data)]_vars

\* the kernel reported the two descriptors against the order they were added in
C14_Witness ==
    /\ iter.live /\ files = <<"a", "b">>
    /\ iter.korder = <<4, 3>>
    /\ yielded = <<"b", "a">>

----------------------------------------------------------------------------
(* The buffer of EPoll.wait and EPoll.modify, under SpecEPoll *)

\* C15: an EPoll.wait that returns Ok(N) has 0 <= N <= the length of the
\* caller's buffer; the first N slots hold the events of N different
\* registered descriptors that are ready, and the slots after them are as
\* they were before the call.
C15_WaitFillsFirstSlots ==
    [][(res'.op = "EPoll.wait" /\ res'.ok) =>
         LET after == res'.events
             b == IF res'.th = Keeper THEN buf ELSE [i \in 1..Len(after) |-> DefaultEvent]
         IN  /\ res'.n \in 0..Len(b)
             /\ Len(after) = Len(b)
             /\ \A i \in (res'.n + 1)..Len(b) : after[i] = b[i]
             /\ \E s \in Reports(ReadyList(reg, ready'), res'.n) :
                   \A i \in 1..res'.n : after[i] = KernelEvent(reg, ready', s[i])
             /\ buf' = IF res'.th = Keeper THEN after ELSE buf]_vars

\* a wait into a buffer of two slots returned Ok(1): the first slot holds the
\* event of descriptor 4, the second still the event of descriptor 3 that an
\* earlier wait, which returned Ok(2), had put there
C15_Witness ==
    /\ res.op = "EPoll.wait" /\ res.ok /\ res.n = 1 /\ res.th = Keeper
    /\ res.events = <<Event({EPOLLIN}, U64(7)), Event({EPOLLOUT}, Above32Bits)>>
    /\ buf = res.events
    /\ reg[3].events = {EPOLLIN} /\ reg[4].events = {EPOLLIN}

\* C16: an EPoll.modify of a registered descriptor that returns Ok leaves
\* that descriptor registered with the mask and the tag of the call and
\* changes no other registration, and the events of later waits carry the tag
\* last supplied; a modify of a descriptor that is not registered fails with
\* an OS error and registers nothing.
C16_ModifyReplaces ==
    /\ [][res'.op = "EPoll.modify" =>
            LET fd == rawfd[res'.arg]
            IN  IF fd \in Registered(reg)
                THEN IF res'.ok
                     THEN /\ reg'[fd] = Item(Event(givenMask'[fd], given'[fd]))
                          /\ \A g \in OpenFds \ {fd} : reg'[g] = reg[g]
                          /\ Registered(reg') = Registered(reg)
                     ELSE reg' = reg
                ELSE ~res'.ok /\ res'.err # "none" /\ reg' = reg]_vars
    /\ []((res.op = "EPoll.wait" /\ res.ok) =>
             \E s \in Reports(Registered(reg), res.n) :
                \A i \in 1..res.n : /\ res.events[i].data = given[s[i]]
                                    /\ res.events[i].events \subseteq givenMask[s[i]])

\* a modify gave descriptor 3 a new mask and tag after a wait had reported an
\* event with the tag of its add
C16_Witness ==
    /\ res.op = "EPoll.modify" /\ res.ok /\ res.arg = "a"
    /\ Registered(reg) = {3}
    /\ reg[3] = Item(Event({EPOLLOUT}, Above32Bits))
    /\ buf = <<Event({EPOLLIN}, U64(7))>>

\* the requests that yielded a reference
Items == {k \in 1..Len(yielded) : yielded[k] # None}

\* C18: the sequence of a wait that received N events yields at most N
\* references; the k-th request (k <= N) looks at the k-th event (what it
\* yields answers the tag of that event) and moves the iterator past it, and
\* every request after the N-th yields nothing and leaves the iterator where
\* it is.
C18_SequenceIsSinglePass ==
    /\ [](iter.live =>
            /\ Cardinality(Items) <= iter.amount
            /\ iter.index = Min(Len(yielded), iter.amount)
            /\ \A k \in (iter.amount + 1)..Len(yielded) : yielded[k] = None)
    /\ [][res'.op = "next" =>
            /\ iter'.amount = iter.amount
            /\ events' = events
            /\ iter'.index = IF iter.index < iter.amount THEN iter.index + 1 ELSE iter.index
            /\ iter.index >= iter.amount => res'.arg = None
            /\ res'.arg # None =>
                  \E i \in 1..Len(files) :
                      /\ files[i] = res'.arg
                      /\ res'.scan[i] = AsRawFd(events[Len(yielded')].data)]_vars

\* two events, three requests: the third yields nothing
C18_Witness ==
    /\ iter.live /\ iter.amount = 2 /\ iter.index = 2
    /\ Len(yielded) = 3 /\ Items = {1, 2}

----------------------------------------------------------------------------
(* The event buffer and the tracked descriptors of the EventLoop, under Spec *)

\* C19: the length of the EventLoop's event buffer is the largest size the
\* tracked set has had, and EventLoop.wait hands the kernel that length as
\* the buffer's capacity: 0 as long as no add has succeeded, at least 1 once
\* one has, also after every descriptor has been removed.
C19_BufferIsHighWaterMark ==
    /\ Len(events) = hwm
    /\ adds = 0 <=> Len(events) = 0
    /\ res.op = "EventLoop.wait" =>
          /\ Len(res.sys) = 1
          /\ res.sys[1].maxevents = Len(events)
          /\ res.sys[1].maxevents = 0 <=> adds = 0

\* add, remove, add, remove, wait: the set is empty, the capacity is 1
C19_Witness ==
    /\ res.op = "EventLoop.wait" /\ res.ok
    /\ adds = 2 /\ removes = 2 /\ files = <<>>
    /\ hwm = 1 /\ res.sys[1].maxevents = 1

\* C20 as stated: no two tracked references have the same descriptor value,
\* and the tracked descriptor values are exactly the descriptors registered
\* on the inner EPoll.
C20_TrackedValuesAreDistinct ==
    /\ \A i, j \in 1..Len(files) : rawfd[files[i]] = rawfd[files[j]] => i = j
    /\ {rawfd[files[i]] : i \in 1..Len(files)} = Registered(reg)

\* C20, amended: as long as no as_raw_fd() has answered differently from the
\* time before, no two tracked references have the same descriptor value and
\* the tracked descriptor values are exactly the descriptors registered on
\* the inner EPoll, so find_file_index finds the one reference of a tracked
\* value; an add that hands the kernel a descriptor that is already
\* registered is always refused with EEXIST and tracks nothing.
C20_StableTrackedValuesAreDistinct ==
    /\ [](~moved =>
            /\ C20_TrackedValuesAreDistinct
            /\ \A fd \in Registered(reg) :
                  Tracked(fd) = {find_file_index(Stable(rawfd, files), fd)})
    /\ [][(res'.op = "EventLoop.add" /\ res'.second \in Registered(reg))
            => (~res'.ok /\ res'.err = "EEXIST" /\ files' = files)]_vars

\* "c" has the descriptor value of the tracked "a": its add was refused
C20_Witness ==
    /\ ~moved
    /\ res.op = "EventLoop.add" /\ ~res.ok /\ res.err = "EEXIST" /\ res.arg = "c"
    /\ files = <<"b", "a">>

----------------------------------------------------------------------------
(* The tag of the EventLoop, under SpecTag *)

\* C21: the descriptor value resolved from the tag of a descriptor value is
\* that value, and two different descriptor values have different tags.
C21_TagRoundTrips ==
    /\ codec.stage = "back" => codec.back = codec.fd
    /\ codec.stage \in {"tag", "back"} =>
          (codec.fd[1] # codec.fd[2] => codec.tag[1] # codec.tag[2])

\* the smallest i32 and 65536 (whose low 16 bits are those of 0) went to
\* their tags and back
C21_Witness ==
    /\ codec.stage = "back"
    /\ codec.fd = <<-I32_MAX - 1, 65536>>
    /\ codec.tag = <<<<0, 32768, 65535, 65535>>, <<0, 1, 0, 0>>>>
    /\ codec.back = <<-I32_MAX - 1, 65536>>

====
